---- MODULE Spec2Model ----
(***************************************************************************)
(* DatabaseManager (src/database.js): the access-code subsystem.           *)
(* generateCodesForUser, verifyCode and deleteUser are asynchronous: each  *)
(* `await` of a store request is one step of the calling process, so the   *)
(* requests of concurrent callers interleave between the awaits.           *)
(***************************************************************************)
EXTENDS Integers, Sequences, FiniteSets, TLC

\* ---------------------------------------------------------------- bounds
\* Largest value of the clock.
MaxTime == 2
\* Number of calls made when callers run concurrently.
MaxCalls == 2
\* Number of calls made when callers run one after the other.
MaxSeqCalls == 3
\* Number of records ever written to the users store.
MaxUsers == 1

Procs == {1, 2}
\* user ids a caller may pass: the stored ones and one that never exists
UserIds == 1..(MaxUsers + 1)

\* ---------------------------------------------------------------- values
\* null / undefined is the empty sequence, a present value x is <<x>>
None == <<>>
Some(x) == <<x>>

Min(a, b) == IF a < b THEN a ELSE b
Max(a, b) == IF a > b THEN a ELSE b

\* const maxAttempts = 10
maxAttempts == 10
\* 180 days, the default validity window (one clock unit is one day)
DefaultValidity == 180

\* ------------------------------------------------------- strings (chars)
\* A string is the sequence of its characters.
Digits36 ==
  <<"0","1","2","3","4","5","6","7","8","9","a","b","c","d","e","f","g","h",
    "i","j","k","l","m","n","o","p","q","r","s","t","u","v","w","x","y","z">>
Upper36 ==
  <<"0","1","2","3","4","5","6","7","8","9","A","B","C","D","E","F","G","H",
    "I","J","K","L","M","N","O","P","Q","R","S","T","U","V","W","X","Y","Z">>

\* Number.prototype.toString(36) of a non-negative integer
RECURSIVE toString36(_)
toString36(n) ==
  IF n < 36 THEN <<Digits36[n + 1]>>
  ELSE toString36(n \div 36) \o <<Digits36[(n % 36) + 1]>>

\* Math.random().toString(36): r is the base-36 expansion of the fraction
\* drawn (no digit at all when the draw is 0, which prints as "0")
randomToString36(r) ==
  IF r = <<>> THEN <<"0">>
  ELSE <<"0", ".">> \o [i \in 1..Len(r) |-> Digits36[r[i] + 1]]

UpperChar(c) ==
  IF \E k \in 1..36 : Digits36[k] = c
  THEN Upper36[CHOOSE k \in 1..36 : Digits36[k] = c]
  ELSE c
toUpperCase(s) == [i \in 1..Len(s) |-> UpperChar(s[i])]

\* String.prototype.slice(-k)
sliceLast(s, k) == SubSeq(s, Max(1, Len(s) - k + 1), Len(s))
\* String.prototype.substring(a, b), 0 <= a <= b
substring(s, a, b) == SubSeq(s, a + 1, Min(b, Len(s)))

\* String.prototype.includes
Includes(s, sub) ==
  \E i \in 0..(Len(s) - Len(sub)) : SubSeq(s, i + 1, i + Len(sub)) = sub

\* The draws of Math.random() explored: 0.abcde... and 0.i (= 0.5)
RandomDraws == { <<10, 11, 12, 13, 14>>, <<18>> }

generateCode(type, clock, r) ==
  LET prefix == IF type = "admin" THEN <<"A","D","M">> ELSE <<"V","W","R">>
      timestamp == toUpperCase(sliceLast(toString36(clock), 4))
      random == toUpperCase(substring(randomToString36(r), 2, 6))
  IN  prefix \o <<"-">> \o timestamp \o random

\* Date.now() at the call of generateCode: instants whose base-36 form has
\* four digits or more (slice(-4) keeps the last four, whatever the length)
ClockValues == {46656, 46657, 1679615, 1679616, 2147483647}
\* the draws of Math.random() handed to generateCode: the ones above, 0,
\* 0.12 (base 36) and 0.zzzz (base 36)
AllDraws == RandomDraws \cup { <<>>, <<1, 2>>, <<35, 35, 35, 35>> }
\* the type argument: 'admin', 'viewer', anything else
CodeTypes == {"admin", "viewer", "other"}

\* product labels stored with a user
ProductPlain == <<"P","l","a","n","-","3">>
ProductSix == <<"P","l","a","n","-","6">>
ProductYearly == <<"Y","e","a","r","l","y">>
\* the four letters of the localized word for yearly, one name per letter
YearlyLocalized == <<"seen", "noon", "waw", "yeh">>
\* 'Plan-6-Premium', 'Yearly Plan', a label with both a 6 and 'Yearly', a
\* label with the localized word, and the empty label
ProductSixPremium == ProductSix \o <<"-","P","r","e","m","i","u","m">>
ProductYearlyPlan == ProductYearly \o <<" ","P","l","a","n">>
ProductYearlySix == ProductYearly \o <<" ","6">>
ProductLocalized == <<"P","l","a","n"," ">> \o YearlyLocalized
ProductEmpty == <<>>
Products ==
  {ProductPlain, ProductSixPremium, ProductYearlyPlan, ProductYearlySix,
   ProductLocalized, ProductEmpty}

\* ----------------------------------------------------------------- state
VARIABLES
  db,             \* this.db is set (the connection is open)
  now,            \* Date.now()
  users,          \* the users store: set of records
  usersNextId,    \* its key generator
  codes,          \* the codes store: set of records
  codesNextId,    \* its key generator
  subscriptions,  \* the subscriptions store: set of records
  subsNextId,     \* its key generator
  pc,             \* per caller: the await it is suspended at
  loc,            \* per caller: the locals of the call in progress
  calls,          \* calls made so far
  lastGen         \* the pair returned by the step just taken, if it was a
                  \* return of generateCodesForUser (clock ticks aside)

vars == <<db, now, users, usersNextId, codes, codesNextId, subscriptions,
          subsNextId, pc, loc, calls, lastGen>>
storeVars == <<users, usersNextId, codes, codesNextId, subscriptions, subsNextId>>

NoResult ==
  [kind |-> "none", ok |-> FALSE, message |-> "", role |-> "", until |-> 0,
   tier |-> "", codes |-> [admin |-> <<>>, viewer |-> <<>>],
   adminCode |-> <<>>, viewerCode |-> <<>>, error |-> ""]

IdleLoc ==
  [op |-> "none", userId |-> 0, pre |-> {}, existingCodes |-> <<>>, i |-> 0,
   updated |-> None, adminCode |-> <<>>, viewerCode |-> <<>>, attempts |-> 0,
   adminCodeId |-> 0, viewerCodeId |-> 0, verifyAdmin |-> FALSE,
   verifyViewer |-> FALSE, codeString |-> <<>>, code |-> None, user |-> None,
   expiryDate |-> None, vnow |-> 0, subs |-> <<>>, imm |-> None,
   exhausted |-> {}, readback |-> "first", result |-> NoResult]

\* ------------------------------------------------------------ the store
\* records of a store in key order (an index returns equal keys in
\* primary-key order)
RECURSIVE ById(_)
ById(S) ==
  IF S = {} THEN <<>>
  ELSE LET r == CHOOSE x \in S : \A y \in S : x.id <= y.id
       IN  <<r>> \o ById(S \ {r})

\* get(storeName, key)
get(store, key) ==
  IF \E r \in store : r.id = key
  THEN Some(CHOOSE r \in store : r.id = key)
  ELSE None

\* getAll('codes', 'code', codeString), then codes[0] or null
getCode(codeString) ==
  LET hits == ById({r \in codes : r.code = codeString})
  IN  IF Len(hits) > 0 THEN Some(hits[1]) ELSE None

\* getUserCodes that does not look at the userId
getUserCodesOfAll(userId) == SelectSeq(ById(codes), LAMBDA c : c.isActive)

\* getUserCodes with the type filter applied although type is null
getUserCodesAdminOnly(userId) ==
  SelectSeq(ById({r \in codes : r.userId = userId}),
            LAMBDA c : c.isActive /\ c.type = "admin")

\* getAll('codes', 'userId', userId) filtered on isActive (type = null)
getUserCodes(userId) ==
  SelectSeq(ById({r \in codes : r.userId = userId}), LAMBDA c : c.isActive)

\* a codes store whose index on code is not unique
NoConstraintError(rec) == FALSE

\* the unique index on codes.code refuses a second record with the code
ConstraintError(rec) ==
  \E r \in codes : r.code = rec.code /\ r.id # rec.id

\* store.put(data): insert or replace by key
put(store, rec) == {r \in store : r.id # rec.id} \cup {rec}

\* ---------------------------------------------------- control transfer
Goto(p, label, l) ==
  /\ pc' = [pc EXCEPT ![p] = label]
  /\ loc' = [loc EXCEPT ![p] = l]
  /\ lastGen' = None

Throw(p, l, err) ==
  /\ pc' = [pc EXCEPT ![p] = "done"]
  /\ loc' = [loc EXCEPT ![p] =
               [l EXCEPT !.result = [NoResult EXCEPT !.kind = "throw", !.error = err]]]
  /\ lastGen' = None

\* return { adminCode, viewerCode }
ReturnPair(p, l) ==
  /\ pc' = [pc EXCEPT ![p] = "done"]
  /\ loc' = [loc EXCEPT ![p] =
               [l EXCEPT !.result = [NoResult EXCEPT !.kind = "return",
                                       !.adminCode = l.adminCode,
                                       !.viewerCode = l.viewerCode]]]
  /\ lastGen' = Some([userId |-> l.userId, adminCode |-> l.adminCode,
                      viewerCode |-> l.viewerCode])

\* ---------------------------------------------------------------- init
Init ==
  /\ db = FALSE
  /\ now = 1
  /\ users = {}
  /\ usersNextId = 1
  /\ codes = {}
  /\ codesNextId = 1
  /\ subscriptions = {}
  /\ subsNextId = 1
  /\ pc = [p \in Procs |-> "idle"]
  /\ loc = [p \in Procs |-> IdleLoc]
  /\ calls = 0
  /\ lastGen = None

\* init(): indexedDB.open succeeds
InitOpen(p, label) ==
  /\ db' = TRUE
  /\ Goto(p, label, loc[p])
  /\ UNCHANGED <<now, storeVars, calls>>

\* init(): indexedDB.open fails; the three callers await init() outside
\* any try block, so the rejection is the outcome of the call
InitFail(p) ==
  /\ pc[p] \in {"g_init", "v_init", "d_init"}
  /\ Throw(p, loc[p], "OpenError")
  /\ UNCHANGED <<db, now, storeVars, calls>>

\* ------------------------------------------------ generateCodesForUser
CallGenerate(p, u, limit) ==
  /\ pc[p] = "idle"
  /\ calls < limit
  /\ calls' = calls + 1
  /\ Goto(p, IF db THEN "g_getUserCodes" ELSE "g_init",
          [IdleLoc EXCEPT !.op = "generate", !.userId = u,
             !.pre = {c \in codes : c.userId = u /\ c.isActive}])
  /\ UNCHANGED <<db, now, storeVars>>

GenInit(p) ==
  /\ pc[p] = "g_init"
  /\ InitOpen(p, "g_getUserCodes")

\* a regeneration that leaves the existing codes as they are
GenSkipDeactivation(p, found) ==
  Goto(p, "g_admin", [loc[p] EXCEPT !.existingCodes = found, !.i = 1])

\* for (const code of existingCodes) ...: into the loop, or past it
GenAfterUserCodes(p, found) ==
  Goto(p, IF Len(found) > 0 THEN "g_upd_get" ELSE "g_admin",
       [loc[p] EXCEPT !.existingCodes = found, !.i = 1])

\* const existingCodes = await this.getUserCodes(userId)
GenGetUserCodes(p) ==
  /\ pc[p] = "g_getUserCodes"
  /\ GenAfterUserCodes(p, getUserCodes(loc[p].userId))
  /\ UNCHANGED <<db, now, storeVars, calls>>

\* updateCode: const code = await this.get('codes', codeId)
\* (the snapshot holds active records only, so code.isActive is true)
GenUpdateGet(p) ==
  /\ pc[p] = "g_upd_get"
  /\ LET l == loc[p]
         code == get(codes, l.existingCodes[l.i].id)
     IN  IF code = None
         THEN Throw(p, l, "Code not found")
         ELSE Goto(p, "g_upd_put",
                   [l EXCEPT !.updated = Some([code[1] EXCEPT !.isActive = FALSE])])
  /\ UNCHANGED <<db, now, storeVars, calls>>

\* updateCode: return this.update('codes', updated)
GenUpdatePut(p) ==
  /\ pc[p] = "g_upd_put"
  /\ LET l == loc[p]
         rec == l.updated[1]
     IN  IF ConstraintError(rec)
         THEN /\ Throw(p, l, "ConstraintError")
              /\ UNCHANGED codes
         ELSE /\ codes' = put(codes, rec)
              /\ Goto(p, IF l.i < Len(l.existingCodes) THEN "g_upd_get" ELSE "g_admin",
                      [l EXCEPT !.i = l.i + 1, !.updated = None])
  /\ UNCHANGED <<db, now, users, usersNextId, codesNextId, subscriptions,
                 subsNextId, calls>>

\* a probe loop that does not count its attempts
NextAttemptStuck(attempts) == attempts

\* attempts++
NextAttempt(attempts) == attempts + 1

\* the probe loop with the bound off by one (attempts <= maxAttempts)
ProbeAgainOnceMore(existing, attempts) ==
  existing # None /\ attempts + 1 <= maxAttempts

\* do { code = generateCode(type); existing = await getCode(code);
\*      if (!existing) break; attempts++ } while (attempts < maxAttempts)
ProbeAgain(existing, attempts) ==
  existing # None /\ attempts + 1 < maxAttempts

GenProbeAdmin(p, r) ==
  /\ pc[p] = "g_admin"
  /\ LET l == loc[p]
         cand == generateCode("admin", now, r)
         existing == getCode(cand)
     IN  IF ProbeAgain(existing, l.attempts)
         THEN Goto(p, "g_admin", [l EXCEPT !.adminCode = cand, !.attempts = NextAttempt(l.attempts)])
         ELSE Goto(p, "g_viewer",
                   [l EXCEPT !.adminCode = cand, !.attempts = 0,
                      !.exhausted = IF existing # None THEN {"admin"} ELSE {}])
  /\ UNCHANGED <<db, now, storeVars, calls>>

GenProbeViewer(p, r) ==
  /\ pc[p] = "g_viewer"
  /\ LET l == loc[p]
         cand == generateCode("viewer", now, r)
         existing == getCode(cand)
     IN  IF ProbeAgain(existing, l.attempts)
         THEN Goto(p, "g_viewer", [l EXCEPT !.viewerCode = cand, !.attempts = NextAttempt(l.attempts)])
         ELSE Goto(p, "g_add_admin",
                   [l EXCEPT !.viewerCode = cand, !.attempts = 0,
                      !.exhausted = IF existing # None THEN l.exhausted \cup {"viewer"}
                                    ELSE l.exhausted])
  /\ UNCHANGED <<db, now, storeVars, calls>>

\* addCode: the record handed to add('codes', code)
NewCode(userId, code, type) ==
  [id |-> codesNextId, userId |-> userId, code |-> code, type |-> type,
   isActive |-> TRUE]

\* an add that also clears the subscriptions of the user of the record
addCodeAndDropSubscriptions(rec) ==
  /\ codes' = codes \cup {rec}
  /\ codesNextId' = codesNextId + 1
  /\ subscriptions' = {r \in subscriptions : r.userId # rec.userId}
  /\ UNCHANGED <<users, usersNextId, subsNextId>>

\* add('codes', code), accepted: one transaction on the codes store, the
\* record stored under the next key
addCode(rec) ==
  /\ codes' = codes \cup {rec}
  /\ codesNextId' = codesNextId + 1
  /\ UNCHANGED <<users, usersNextId, subscriptions, subsNextId>>

\* add('codes', code): the unique index rejects the request, or the record
\* is stored under the next key
GenAddAdmin(p) ==
  /\ pc[p] = "g_add_admin"
  /\ LET l == loc[p]
         rec == NewCode(l.userId, l.adminCode, "admin")
     IN  IF ConstraintError(rec)
         THEN /\ Throw(p, l, "ConstraintError")
              /\ UNCHANGED storeVars
         ELSE /\ addCode(rec)
              /\ Goto(p, "g_add_viewer", [l EXCEPT !.adminCodeId = rec.id])
  /\ UNCHANGED <<db, now, calls>>

GenAddViewer(p) ==
  /\ pc[p] = "g_add_viewer"
  /\ LET l == loc[p]
         rec == NewCode(l.userId, l.viewerCode, "viewer")
     IN  IF ConstraintError(rec)
         THEN /\ Throw(p, l, "ConstraintError")
              /\ UNCHANGED storeVars
         ELSE /\ addCode(rec)
              /\ Goto(p, "g_rb_admin", [l EXCEPT !.viewerCodeId = rec.id])
  /\ UNCHANGED <<db, now, calls>>

\* after the 200 ms delay: let verifyAdmin = await this.getCode(adminCode)
GenReadbackAdmin(p) ==
  /\ pc[p] = "g_rb_admin"
  /\ Goto(p, "g_rb_viewer",
          [loc[p] EXCEPT !.verifyAdmin = (getCode(loc[p].adminCode) # None)])
  /\ UNCHANGED <<db, now, storeVars, calls>>

\* if (!verifyAdmin || !verifyViewer) { wait more and retry
NeedsRetry(verifyAdmin, verifyViewer) == ~verifyAdmin \/ ~verifyViewer

\* the final check with && in the place of ||
VerificationFailedBoth(verifyAdmin, verifyViewer) == ~verifyAdmin /\ ~verifyViewer

\* if (!verifyAdmin || !verifyViewer) throw new Error('Failed to save ...')
VerificationFailed(verifyAdmin, verifyViewer) == ~verifyAdmin \/ ~verifyViewer

\* where the first read-back goes once a lookup has answered: the lookups
\* by id for what the lookups by code missed, then the retry or the return
AfterReadback(p, l, asked) ==
  IF ~l.verifyAdmin /\ asked = "code" THEN Goto(p, "g_rb_admin_id", l)
  ELSE IF ~l.verifyViewer /\ asked \in {"code", "adminId"} THEN Goto(p, "g_rb_viewer_id", l)
  ELSE IF NeedsRetry(l.verifyAdmin, l.verifyViewer)
       THEN Goto(p, "g_retry_admin", [l EXCEPT !.readback = "retry"])
  ELSE ReturnPair(p, l)

\* let verifyViewer = await this.getCode(viewerCode)
GenReadbackViewer(p) ==
  /\ pc[p] = "g_rb_viewer"
  /\ AfterReadback(p, [loc[p] EXCEPT !.verifyViewer = (getCode(loc[p].viewerCode) # None)],
                   "code")
  /\ UNCHANGED <<db, now, storeVars, calls>>

\* if (!verifyAdmin) verifyAdmin = await this.get('codes', adminCodeId)
GenReadbackAdminId(p) ==
  /\ pc[p] = "g_rb_admin_id"
  /\ AfterReadback(p, [loc[p] EXCEPT !.verifyAdmin = (get(codes, loc[p].adminCodeId) # None)],
                   "adminId")
  /\ UNCHANGED <<db, now, storeVars, calls>>

\* if (!verifyViewer) verifyViewer = await this.get('codes', viewerCodeId)
GenReadbackViewerId(p) ==
  /\ pc[p] = "g_rb_viewer_id"
  /\ AfterReadback(p, [loc[p] EXCEPT !.verifyViewer = (get(codes, loc[p].viewerCodeId) # None)],
                   "viewerId")
  /\ UNCHANGED <<db, now, storeVars, calls>>

\* after the 300 ms delay: verifyAdmin = await this.getCode(adminCode)
GenRetryAdmin(p) ==
  /\ pc[p] = "g_retry_admin"
  /\ Goto(p, "g_retry_viewer",
          [loc[p] EXCEPT !.verifyAdmin = (getCode(loc[p].adminCode) # None)])
  /\ UNCHANGED <<db, now, storeVars, calls>>

\* verifyViewer = await this.getCode(viewerCode), then throw or return
GenRetryViewer(p) ==
  /\ pc[p] = "g_retry_viewer"
  /\ LET l == [loc[p] EXCEPT !.verifyViewer = (getCode(loc[p].viewerCode) # None),
                             !.readback = "answered"]
     IN  IF VerificationFailed(l.verifyAdmin, l.verifyViewer)
         THEN Throw(p, l, "VerificationFailed")
         ELSE ReturnPair(p, l)
  /\ UNCHANGED <<db, now, storeVars, calls>>

\* ----------------------------------------------------------- verifyCode
Outcome(message) == [NoResult EXCEPT !.kind = "return", !.message = message]

Finish(p, l, res) ==
  /\ pc' = [pc EXCEPT ![p] = "done"]
  /\ loc' = [loc EXCEPT ![p] = [l EXCEPT !.result = res]]
  /\ lastGen' = None

CallVerify(p, c, limit) ==
  /\ pc[p] = "idle"
  /\ calls < limit
  /\ calls' = calls + 1
  /\ Goto(p, IF db THEN "v_getCode" ELSE "v_init",
          [IdleLoc EXCEPT !.op = "verify", !.codeString = c, !.imm = lastGen])
  /\ UNCHANGED <<db, now, storeVars>>

VerifyInit(p) ==
  /\ pc[p] = "v_init"
  /\ InitOpen(p, "v_getCode")

\* a lookup that marks the record it returns as used
getAllMarksUsed(codeString) ==
  /\ codes' = {IF c.code = codeString THEN [c EXCEPT !.isActive = FALSE] ELSE c :
                c \in codes}
  /\ UNCHANGED <<users, usersNextId, codesNextId, subscriptions, subsNextId>>

\* getAll('codes', 'code', codeString): a 'readonly' transaction
getAllReadonly(codeString) == UNCHANGED storeVars

\* the lookup check without the isActive test
CodeRejectedMissingOnly(code) == code = None

\* if (!code || !code.isActive)
CodeRejected(code) == code = None \/ ~code[1].isActive

\* const code = await this.getCode(codeString)
VerifyGetCode(p) ==
  /\ pc[p] = "v_getCode"
  /\ LET l == loc[p]
         code == getCode(l.codeString)
     IN  IF CodeRejected(code)
         THEN Finish(p, [l EXCEPT !.code = code], Outcome("INVALID"))
         ELSE Goto(p, "v_getUser", [l EXCEPT !.code = code])
  /\ getAllReadonly(loc[p].codeString)
  /\ UNCHANGED <<db, now, calls>>

\* a number in a condition: null, undefined and 0 are falsy
Truthy(n) == n # None /\ n[1] # 0

\* user.expiryDate ? new Date(user.expiryDate).getTime() : null
\* (the stored date is kept as the instant it parses to)
ExpiryTime(user) == user.expiryDate

\* the expiry check with <= in the place of <
IsExpiredInclusive(expiryDate, clock) == Truthy(expiryDate) /\ expiryDate[1] <= clock

\* if (expiryDate && expiryDate < now)
IsExpired(expiryDate, clock) == Truthy(expiryDate) /\ expiryDate[1] < clock

\* getUser that answers with whatever user record the store holds first
getUserAny(userId) ==
  IF users = {} THEN None ELSE Some(ById(users)[1])

\* getUser(userId): this.get('users', userId)
getUser(userId) == get(users, userId)

\* const user = await this.getUser(code.userId), then the expiry check
VerifyGetUser(p) ==
  /\ pc[p] = "v_getUser"
  /\ LET l == loc[p]
         user == getUser(l.code[1].userId)
     IN  IF user = None
         THEN Finish(p, l, Outcome("USER_NOT_FOUND"))
         ELSE LET l2 == [l EXCEPT !.user = user, !.vnow = now,
                                  !.expiryDate = ExpiryTime(user[1])]
              IN  IF IsExpired(l2.expiryDate, l2.vnow)
                  THEN Finish(p, l2, Outcome("EXPIRED"))
                  ELSE Goto(p, "v_getUserCodes", l2)
  /\ UNCHANGED <<db, now, storeVars, calls>>

\* find without the test of the type
ActiveCodeOfAnyType(userCodes, type) ==
  IF Len(userCodes) > 0 THEN userCodes[1].code ELSE <<>>

\* userCodes.find(c => c.type === type && c.isActive), then
\* found ? found.code : ''
ActiveCodeOf(userCodes, type) ==
  LET hits == SelectSeq(userCodes, LAMBDA c : c.type = type /\ c.isActive)
  IN  IF Len(hits) > 0 THEN hits[1].code ELSE <<>>

\* user.product && user.product.includes(sub)
ProductHas(product, sub) ==
  product # None /\ product[1] # <<>> /\ Includes(product[1], sub)

\* the tier of a product that is a string (line 384 reads
\* user.product.includes('Yearly') whenever the two tests before it fail)
Tier(product) ==
  IF ProductHas(product, <<"6">>) THEN "Pro-6"
  ELSE IF ProductHas(product, YearlyLocalized)
          \/ Includes(product[1], ProductYearly) THEN "Pro-12"
  ELSE "Basic-3"

\* user.product.includes throws a TypeError when product is null/undefined
TierThrows(product) == product = None

Success(l, userCodes) ==
  [NoResult EXCEPT
     !.kind = "return", !.ok = TRUE,
     !.role = IF l.code[1].type = "admin" THEN "admin" ELSE "viewer",
     !.until = IF Truthy(l.expiryDate) THEN l.expiryDate[1]
               ELSE l.vnow + DefaultValidity,
     !.tier = Tier(l.user[1].product),
     !.codes = [admin |-> ActiveCodeOf(userCodes, "admin"),
                viewer |-> ActiveCodeOf(userCodes, "viewer")]]

\* the rest of verifyCode once getUserCodes has answered
VerifyAfterUserCodes(p, userCodes) ==
  IF TierThrows(loc[p].user[1].product)
  THEN Finish(p, loc[p], Outcome("ERROR"))
  ELSE Finish(p, loc[p], Success(loc[p], userCodes))

\* const userCodes = await this.getUserCodes(code.userId)
VerifyGetUserCodes(p) ==
  /\ pc[p] = "v_getUserCodes"
  /\ VerifyAfterUserCodes(p, getUserCodes(loc[p].code[1].userId))
  /\ UNCHANGED <<db, now, storeVars, calls>>

\* ----------------------------------------------------------- deleteUser
CallDeleteUser(p, u, limit) ==
  /\ pc[p] = "idle"
  /\ calls < limit
  /\ calls' = calls + 1
  /\ Goto(p, IF db THEN "d_getUserCodes" ELSE "d_init",
          [IdleLoc EXCEPT !.op = "deleteUser", !.userId = u])
  /\ UNCHANGED <<db, now, storeVars>>

DeleteInit(p) ==
  /\ pc[p] = "d_init"
  /\ InitOpen(p, "d_getUserCodes")

DeleteAfterUserCodes(p, found) ==
  Goto(p, "d_deleteCodes", [loc[p] EXCEPT !.existingCodes = found])

\* deleteUserCodes: const codes = await this.getUserCodes(userId)
DeleteGetUserCodes(p) ==
  /\ pc[p] = "d_getUserCodes"
  /\ DeleteAfterUserCodes(p, getUserCodes(loc[p].userId))
  /\ UNCHANGED <<db, now, storeVars, calls>>

\* store.delete(key) for every record of a list: the requests are issued
\* together, so no other caller's request comes between them
deleteAll(store, records) ==
  {r \in store : \A k \in 1..Len(records) : records[k].id # r.id}

\* Promise.all(codes.map(code => this.deleteCode(code.id)))
DeleteCodes(p) ==
  /\ pc[p] = "d_deleteCodes"
  /\ codes' = deleteAll(codes, loc[p].existingCodes)
  /\ Goto(p, "d_getSubs", loc[p])
  /\ UNCHANGED <<db, now, users, usersNextId, codesNextId, subscriptions,
                 subsNextId, calls>>

\* deleteUserSubscriptions: getAll('subscriptions', 'userId', userId)
DeleteGetSubs(p) ==
  /\ pc[p] = "d_getSubs"
  /\ Goto(p, "d_deleteSubs",
          [loc[p] EXCEPT !.subs = ById({r \in subscriptions : r.userId = loc[p].userId})])
  /\ UNCHANGED <<db, now, storeVars, calls>>

DeleteSubs(p) ==
  /\ pc[p] = "d_deleteSubs"
  /\ subscriptions' = deleteAll(subscriptions, loc[p].subs)
  /\ Goto(p, "d_deleteUser", loc[p])
  /\ UNCHANGED <<db, now, users, usersNextId, codes, codesNextId, subsNextId, calls>>

\* return this.delete('users', userId)
DeleteUserRecord(p) ==
  /\ pc[p] = "d_deleteUser"
  /\ users' = {r \in users : r.id # loc[p].userId}
  /\ Finish(p, loc[p], [NoResult EXCEPT !.kind = "return", !.ok = TRUE])
  /\ UNCHANGED <<db, now, usersNextId, codes, codesNextId, subscriptions,
                 subsNextId, calls>>

\* ------------------------------------------------- other entry points
\* the expiry dates handed to addUser: none, or the date of an instant
Expiries == {None} \cup {Some(t) : t \in 0..MaxTime}

\* addUser(userData): product: userData.product || '',
\* expiryDate: userData.expiryDate || null; add() rejects without a connection
AddUser(product, expiryDate) ==
  /\ db
  /\ usersNextId <= MaxUsers
  /\ users' = users \cup {[id |-> usersNextId, expiryDate |-> expiryDate,
                           product |-> Some(product)]}
  /\ usersNextId' = usersNextId + 1
  /\ lastGen' = None
  /\ UNCHANGED <<db, now, codes, codesNextId, subscriptions, subsNextId, pc, loc, calls>>

\* importData({users: [user]}): the record is put as it is, here a new
\* record that has no product field
ImportUser(expiryDate) ==
  /\ db
  /\ usersNextId <= MaxUsers
  /\ users' = put(users, [id |-> usersNextId, expiryDate |-> expiryDate,
                          product |-> None])
  /\ usersNextId' = usersNextId + 1
  /\ lastGen' = None
  /\ UNCHANGED <<db, now, codes, codesNextId, subscriptions, subsNextId, pc, loc, calls>>

\* addSubscription({userId})
AddSubscription(u) ==
  /\ db
  /\ subsNextId <= MaxUsers
  /\ subscriptions' = subscriptions \cup {[id |-> subsNextId, userId |-> u]}
  /\ subsNextId' = subsNextId + 1
  /\ lastGen' = None
  /\ UNCHANGED <<db, now, users, usersNextId, codes, codesNextId, pc, loc, calls>>

\* deleteCode(codeId): one delete request
DeleteCode(id, limit) ==
  /\ db
  /\ calls < limit
  /\ calls' = calls + 1
  /\ \E r \in codes : r.id = id
  /\ codes' = {r \in codes : r.id # id}
  /\ lastGen' = None
  /\ UNCHANGED <<db, now, users, usersNextId, codesNextId, subscriptions,
                 subsNextId, pc, loc>>

\* the caller takes the outcome of its call
Return(p) ==
  /\ pc[p] = "done"
  /\ pc' = [pc EXCEPT ![p] = "idle"]
  /\ loc' = [loc EXCEPT ![p] = IdleLoc]
  /\ UNCHANGED <<db, now, storeVars, calls, lastGen>>

Tick ==
  /\ now < MaxTime
  /\ now' = now + 1
  /\ UNCHANGED <<db, storeVars, pc, loc, calls, lastGen>>

\* generateCode(type): synchronous, the caller has the string at once
CallGenerateCode(p, type, r) ==
  /\ pc[p] = "idle"
  /\ Finish(p, [IdleLoc EXCEPT !.op = "generateCode"],
            [NoResult EXCEPT !.kind = "return", !.role = type,
                             !.adminCode = generateCode(type, now, r)])
  /\ UNCHANGED <<db, now, storeVars, calls>>

\* ------------------------------------------------- store requests fail
\* getUserCodes, catch branch: const allCodes = await this.getAll('codes'),
\* filtered on userId and isActive
getUserCodesFallback(userId) ==
  SelectSeq(ById(codes), LAMBDA c : c.userId = userId /\ c.isActive)

GenFallback(p) ==
  /\ pc[p] = "g_fallback"
  /\ GenAfterUserCodes(p, getUserCodesFallback(loc[p].userId))
  /\ UNCHANGED <<db, now, storeVars, calls>>

\* A request of generateCodesForUser is rejected. getUserCodes catches the
\* rejection of its first getAll and asks again without the index, catches
\* the rejection of that one and returns []; every other rejection reaches
\* the catch of generateCodesForUser, which throws it again.
GenStoreReject(p) ==
  /\ pc[p] \in {"g_getUserCodes", "g_fallback", "g_upd_get", "g_upd_put",
                "g_admin", "g_viewer", "g_add_admin", "g_add_viewer",
                "g_rb_admin", "g_rb_viewer", "g_rb_admin_id", "g_rb_viewer_id",
                "g_retry_admin", "g_retry_viewer"}
  /\ IF pc[p] = "g_getUserCodes" THEN Goto(p, "g_fallback", loc[p])
     ELSE IF pc[p] = "g_fallback" THEN GenAfterUserCodes(p, <<>>)
     ELSE Throw(p, loc[p], "StoreError")
  /\ UNCHANGED <<db, now, storeVars, calls>>

VerifyFallback(p) ==
  /\ pc[p] = "v_fallback"
  /\ VerifyAfterUserCodes(p, getUserCodesFallback(loc[p].code[1].userId))
  /\ UNCHANGED <<db, now, storeVars, calls>>

\* A request of verifyCode is rejected: the catch of verifyCode returns
\* { ok: false, message: 'ERROR' }, unless getUserCodes caught it first.
VerifyStoreReject(p) ==
  /\ pc[p] \in {"v_getCode", "v_getUser", "v_getUserCodes", "v_fallback"}
  /\ IF pc[p] = "v_getUserCodes" THEN Goto(p, "v_fallback", loc[p])
     ELSE IF pc[p] = "v_fallback" THEN VerifyAfterUserCodes(p, <<>>)
     ELSE Finish(p, loc[p], Outcome("ERROR"))
  /\ UNCHANGED <<db, now, storeVars, calls>>

\* ------------------------------------------------------ specifications
\* the call of p has ended / has ended by returning
Finished(p, op) == pc[p] = "done" /\ loc[p].op = op
Returned(p, op) == Finished(p, op) /\ loc[p].result.kind = "return"

\* a code string no record ever has
Bogus == <<"X">>
\* the code strings presented to verifyCode
VerifyInputs == {r.code : r \in codes} \cup {Bogus}

GenerateSteps(p, limit) ==
  \/ \E u \in UserIds : CallGenerate(p, u, limit)
  \/ GenInit(p)
  \/ GenGetUserCodes(p)
  \/ GenUpdateGet(p)
  \/ GenUpdatePut(p)
  \/ \E r \in RandomDraws : GenProbeAdmin(p, r)
  \/ \E r \in RandomDraws : GenProbeViewer(p, r)
  \/ GenAddAdmin(p)
  \/ GenAddViewer(p)
  \/ GenReadbackAdmin(p)
  \/ GenReadbackViewer(p)

\* the steps taken only after a read-back missed a record
GenerateRetrySteps(p) ==
  \/ GenReadbackAdminId(p)
  \/ GenReadbackViewerId(p)
  \/ GenRetryAdmin(p)
  \/ GenRetryViewer(p)

VerifySteps(p, limit) ==
  \/ \E c \in VerifyInputs : CallVerify(p, c, limit)
  \/ VerifyInit(p)
  \/ VerifyGetCode(p)
  \/ VerifyGetUser(p)
  \/ VerifyGetUserCodes(p)

DeleteUserSteps(p, limit) ==
  \/ \E u \in UserIds : CallDeleteUser(p, u, limit)
  \/ DeleteInit(p)
  \/ DeleteGetUserCodes(p)
  \/ DeleteCodes(p)
  \/ DeleteGetSubs(p)
  \/ DeleteSubs(p)
  \/ DeleteUserRecord(p)

\* the caller of the runs in which calls do not overlap
SeqProcs == {1}

\* no call of another caller is in progress
Alone(p) == \A q \in Procs \ {p} : pc[q] \in {"idle", "done"}
\* no call is in progress and every outcome has been taken
AllIdle == \A q \in Procs : pc[q] = "idle"
\* no call is in progress
Quiet == \A q \in Procs : pc[q] \in {"idle", "done"}

\* Callers run concurrently; every store request is answered.
Next ==
  \/ \E p \in Procs : GenerateSteps(p, MaxCalls)
  \/ \E p \in Procs : GenerateRetrySteps(p)
  \/ \E p \in Procs : VerifySteps(p, MaxCalls)
  \/ \E p \in Procs : DeleteUserSteps(p, MaxCalls)
  \/ AddUser(ProductPlain, None)
  \/ \E p \in Procs : Return(p)
  \/ Tick

Spec == Init /\ [][Next]_vars

\* One call at a time, nothing else touching the store while it runs;
\* every store request is answered.
SeqNext ==
  \/ \E p \in SeqProcs : Alone(p) /\ GenerateSteps(p, MaxSeqCalls)
  \/ \E p \in SeqProcs : Alone(p) /\ VerifySteps(p, MaxSeqCalls)
  \/ \E p \in SeqProcs : Alone(p) /\ DeleteUserSteps(p, MaxSeqCalls)
  \/ AllIdle /\ \E e \in Expiries : AddUser(ProductPlain, e)
  \/ AllIdle /\ ImportUser(None)
  \/ AllIdle /\ \E u \in 1..MaxUsers : AddSubscription(u)
  \/ AllIdle /\ \E id \in 1..(2 * MaxSeqCalls) : DeleteCode(id, MaxSeqCalls)
  \/ \E p \in SeqProcs : Return(p)
  \/ Tick

SpecSeq == Init /\ [][SeqNext]_vars

\* One call at a time; a store request may be rejected, opening the
\* database may fail, and single records may be deleted while a call runs.
FaultNext ==
  \/ \E p \in SeqProcs : Alone(p) /\ GenerateSteps(p, MaxSeqCalls)
  \/ \E p \in SeqProcs : GenerateRetrySteps(p)
  \/ \E p \in SeqProcs : Alone(p) /\ VerifySteps(p, MaxSeqCalls)
  \/ \E p \in SeqProcs : GenFallback(p)
  \/ \E p \in SeqProcs : GenStoreReject(p)
  \/ \E p \in SeqProcs : VerifyFallback(p)
  \/ \E p \in SeqProcs : VerifyStoreReject(p)
  \/ \E p \in SeqProcs : InitFail(p)
  \/ \E id \in 1..(2 * MaxSeqCalls) : DeleteCode(id, MaxSeqCalls)
  \/ AddUser(ProductPlain, None)
  \/ ImportUser(None)
  \/ \E p \in SeqProcs : Return(p)
  \/ Tick

SpecFault == Init /\ [][FaultNext]_vars

\* the store's answers to the requests of a call of generateCodesForUser,
\* the rejections included, and the timers of its two delays
GenerateResponses(p) ==
  \/ GenInit(p)
  \/ InitFail(p)
  \/ GenGetUserCodes(p)
  \/ GenFallback(p)
  \/ GenStoreReject(p)
  \/ GenUpdateGet(p)
  \/ GenUpdatePut(p)
  \/ \E r \in RandomDraws : GenProbeAdmin(p, r)
  \/ \E r \in RandomDraws : GenProbeViewer(p, r)
  \/ GenAddAdmin(p)
  \/ GenAddViewer(p)
  \/ GenReadbackAdmin(p)
  \/ GenReadbackViewer(p)
  \/ GenerateRetrySteps(p)

\* Calls of generateCodesForUser one after the other; a request may be
\* rejected and single records may be deleted while a call runs, but every
\* request is answered in the end and every timer fires.
LiveNext ==
  \/ \E p \in SeqProcs, u \in 1..MaxUsers : CallGenerate(p, u, MaxSeqCalls)
  \/ \E p \in SeqProcs : GenerateResponses(p)
  \/ \E id \in 1..(2 * MaxSeqCalls) : DeleteCode(id, MaxSeqCalls)
  \/ \E p \in SeqProcs : Return(p)
  \/ Tick

SpecLive ==
  Init /\ [][LiveNext]_vars /\ \A p \in SeqProcs : WF_vars(GenerateResponses(p))
\* the callers that only verify
ReadProcs == Procs \ SeqProcs

\* One caller regenerates while another verifies; every store request is
\* answered.
WindowNext ==
  \/ \E p \in SeqProcs : GenerateSteps(p, MaxSeqCalls)
  \/ \E p \in ReadProcs : VerifySteps(p, MaxSeqCalls)
  \/ AddUser(ProductPlain, None)
  \/ \E p \in Procs : Return(p)
  \/ Tick

SpecWindow == Init /\ [][WindowNext]_vars
\* The caller regenerates; once a call of it has failed, it regenerates
\* again for the same user (the record of the failed call is kept next to
\* the record of the new call). A request may be rejected, and single
\* records may be deleted until the second call begins.
RecoverNext ==
  \/ \E p \in SeqProcs, u \in 1..MaxUsers :
        AllIdle /\ CallGenerate(p, u, MaxSeqCalls)
  \/ \E p \in SeqProcs, q \in ReadProcs :
        /\ Finished(p, "generate") /\ loc[p].result.kind = "throw"
        /\ CallGenerate(q, loc[p].userId, MaxSeqCalls)
  \/ \E p \in Procs : GenerateResponses(p)
  \/ \E id \in 1..(2 * MaxSeqCalls) :
        (\A q \in ReadProcs : pc[q] = "idle") /\ DeleteCode(id, MaxSeqCalls)
  \/ \E p \in SeqProcs : Return(p) /\ AllIdle'
  \/ \E q \in ReadProcs : Return(q)
  \/ Tick

SpecRecover == Init /\ [][RecoverNext]_vars
\* generateCode alone, at any instant and with any draw.
InitCode ==
  /\ db = FALSE
  /\ now \in ClockValues
  /\ users = {} /\ usersNextId = 1
  /\ codes = {} /\ codesNextId = 1
  /\ subscriptions = {} /\ subsNextId = 1
  /\ pc = [p \in Procs |-> "idle"]
  /\ loc = [p \in Procs |-> IdleLoc]
  /\ calls = 0
  /\ lastGen = None

CodeNext ==
  \/ \E p \in Procs, type \in CodeTypes, r \in AllDraws : CallGenerateCode(p, type, r)
  \/ \E p \in Procs : Return(p)

SpecCode == InitCode /\ [][CodeNext]_vars
\* One call at a time on a store that answers every request; the users
\* carry every kind of product label, or none.
ProductsNext ==
  \/ \E p \in SeqProcs : Alone(p) /\ GenerateSteps(p, MaxSeqCalls)
  \/ \E p \in SeqProcs : Alone(p) /\ VerifySteps(p, MaxSeqCalls)
  \/ AllIdle /\ \E product \in Products : AddUser(product, None)
  \/ AllIdle /\ ImportUser(None)
  \/ \E p \in SeqProcs : Return(p)
  \/ Tick

SpecProducts == Init /\ [][ProductsNext]_vars

\* ---------------------------------------------------------------- claims
ActiveCodes(u, type) == {c \in codes : c.userId = u /\ c.type = type /\ c.isActive}

WellFormedUnexpired(u, t) ==
  \E r \in users :
    /\ r.id = u
    /\ r.product # None
    /\ (r.expiryDate = None \/ r.expiryDate[1] >= t)

C3_InactiveOrMissingIsInvalid ==
  \A p \in Procs :
    ( /\ Finished(p, "verify")
      /\ \A c \in codes : c.code = loc[p].codeString => ~c.isActive )
    => /\ loc[p].result.kind = "return"
       /\ ~loc[p].result.ok
       /\ loc[p].result.message = "INVALID"

\* a code that a regeneration deactivated has been presented
C3_Witness ==
  \E p \in Procs :
    /\ Finished(p, "verify")
    /\ \E c \in codes : c.code = loc[p].codeString /\ ~c.isActive

\* C4: verifyCode(c) for an active code whose user exists and has an
\* expiryDate strictly before the instant of the check yields EXPIRED.
C4_PastExpiryIsExpired ==
  \A p \in Procs :
    ( /\ Finished(p, "verify")
      /\ \E c \in codes, u \in users :
           /\ c.code = loc[p].codeString /\ c.isActive
           /\ u.id = c.userId
           /\ u.expiryDate # None
           /\ u.expiryDate[1] < loc[p].vnow )
    => /\ ~loc[p].result.ok
       /\ loc[p].result.message = "EXPIRED"

\* C5: when two concurrent calls of generateCodesForUser(U) have both
\* returned, U has one active admin and one active viewer code, and the
\* two are the pair one of the calls returned.
C5_LastWriterWins ==
  \A p, q \in Procs :
    ( /\ p # q
      /\ Returned(p, "generate") /\ Returned(q, "generate")
      /\ loc[p].userId = loc[q].userId )
    => /\ Cardinality(ActiveCodes(loc[p].userId, "admin")) = 1
       /\ Cardinality(ActiveCodes(loc[p].userId, "viewer")) = 1
       /\ \E w \in {p, q} :
            /\ \A c \in ActiveCodes(loc[p].userId, "admin") : c.code = loc[w].result.adminCode
            /\ \A c \in ActiveCodes(loc[p].userId, "viewer") : c.code = loc[w].result.viewerCode

\* C6: no two records of the codes store, active or not, have the same
\* code string, also after a call whose uniqueness probe was exhausted.
C6_CodeStringsUnique ==
  \A c1, c2 \in codes : c1.code = c2.code => c1 = c2

\* a call whose probe ran out of attempts has ended, with records stored
C6_Witness ==
  \E p \in Procs :
    /\ Finished(p, "generate")
    /\ loc[p].exhausted # {}
    /\ Cardinality(codes) >= 2

\* C7: whenever no call is in progress, every user has at most one active
\* admin record and at most one active viewer record.
C7_AtMostOneActivePerType ==
  Quiet =>
    \A u \in UserIds : \A type \in {"admin", "viewer"} :
      Cardinality(ActiveCodes(u, type)) <= 1

\* C8: verifyCode never throws: whatever the store does, the call ends by
\* returning a result.
C8_VerifyNeverThrows ==
  \A p \in Procs : Finished(p, "verify") => loc[p].result.kind = "return"

\* both add requests of the call were acknowledged
Acknowledged(p) == loc[p].adminCodeId # 0 /\ loc[p].viewerCodeId # 0
\* the delayed second read-back was answered and missed a new code
SecondReadbackMissed(p) ==
  loc[p].readback = "answered" /\ (~loc[p].verifyAdmin \/ ~loc[p].verifyViewer)

\* C9, as claimed: once both writes are acknowledged the call fails with the
\* verification error when the second read-back misses a code, and returns
\* the pair in every other case.
C9_AsClaimed ==
  \A p \in Procs :
    (Finished(p, "generate") /\ Acknowledged(p)) =>
      IF SecondReadbackMissed(p)
      THEN loc[p].result.error = "VerificationFailed"
      ELSE loc[p].result.kind = "return"

\* C9, amended: once both writes are acknowledged the call fails with the
\* verification error exactly when the second read-back was answered and
\* missed a code; it fails with the store's error when a read-back lookup
\* is rejected; in every other case it returns the generated pair, both
\* codes of which the last read-back found.
C9_VerificationFailureExact ==
  \A p \in Procs :
    (Finished(p, "generate") /\ Acknowledged(p)) =>
      /\ (loc[p].result.error = "VerificationFailed") <=> SecondReadbackMissed(p)
      /\ \/ loc[p].result.kind = "return"
         \/ loc[p].result.error \in {"VerificationFailed", "StoreError"}
      /\ loc[p].result.kind = "return" =>
           /\ loc[p].verifyAdmin /\ loc[p].verifyViewer
           /\ loc[p].result.adminCode = loc[p].adminCode
           /\ loc[p].result.viewerCode = loc[p].viewerCode
      /\ loc[p].result.kind = "throw" =>
           loc[p].result.adminCode = <<>> /\ loc[p].result.viewerCode = <<>>

\* a call has failed with the verification error
C9_Witness ==
  \E p \in Procs :
    /\ Finished(p, "generate")
    /\ Acknowledged(p)
    /\ loc[p].result.error = "VerificationFailed"

\* C10, as claimed: a call whose probe found all 10 candidates of a role in
\* the store does not fail: it completes and returns its pair.
C10_AsClaimed ==
  \A p \in Procs :
    (Finished(p, "generate") /\ loc[p].exhausted # {}) =>
      loc[p].result.kind = "return"

\* C10, amended: at most 10 candidates are drawn per role; a call running
\* alone whose probe found all 10 in the store goes on to the add requests,
\* where the unique index rejects the last candidate: the call fails with
\* that error and returns no pair, an admin record added before a rejected
\* viewer record staying in the store.
C10_ExhaustedProbeEndsInConstraintError ==
  \A p \in Procs :
    /\ loc[p].attempts < maxAttempts
    /\ (Finished(p, "generate") /\ loc[p].exhausted # {}) =>
         /\ loc[p].result.kind = "throw"
         /\ loc[p].result.error = "ConstraintError"
         /\ "admin" \notin loc[p].exhausted =>
              \E c \in ActiveCodes(loc[p].userId, "admin") : c.id = loc[p].adminCodeId

\* a call whose viewer probe was exhausted has ended after adding its admin
\* record
C10_Witness ==
  \E p \in Procs :
    /\ Finished(p, "generate")
    /\ loc[p].exhausted = {"viewer"}
    /\ loc[p].adminCodeId # 0

\* C11: the tier of a Success result follows the product label, first match
\* wins: Pro-6 when it contains a 6 (also next to 'Yearly'), else Pro-12
\* when it contains 'Yearly' or the localized word, else Basic-3, the empty
\* and the absent label included; so a verification that got as far as the
\* tier succeeds with that tier.
C11_TierByProduct ==
  \A p \in Procs :
    (Finished(p, "verify") /\ loc[p].user # None) =>
      LET product == loc[p].user[1].product
          label == IF product = None THEN <<>> ELSE product[1]
      IN  /\ loc[p].result.ok
          /\ loc[p].result.tier =
               IF Includes(label, <<"6">>) THEN "Pro-6"
               ELSE IF Includes(label, ProductYearly) \/ Includes(label, YearlyLocalized)
                    THEN "Pro-12"
               ELSE "Basic-3"

\* C12: every string generateCode(type) produces, at every instant and for
\* every draw, is 'ADM-' for type admin and 'VWR-' for any other type,
\* followed by exactly 8 characters out of A-Z and 0-9.
C12_CodeFormat ==
  \A p \in Procs :
    Finished(p, "generateCode") =>
      LET s == loc[p].result.adminCode
      IN  /\ Len(s) = 12
          /\ SubSeq(s, 1, 4) = IF loc[p].result.role = "admin"
                               THEN <<"A","D","M","-">> ELSE <<"V","W","R","-">>
          /\ \A i \in 5..Len(s) : \E k \in 1..36 : s[i] = Upper36[k]

C14_UntilIsExpiryOrDefault ==
  \A p \in Procs :
    (Finished(p, "verify") /\ loc[p].result.ok) =>
      LET user == loc[p].user[1]
      IN  /\ loc[p].result.until =
               IF user.expiryDate # None THEN user.expiryDate[1]
               ELSE loc[p].vnow + DefaultValidity
          /\ loc[p].result.until >= loc[p].vnow

\* C15: verifyCode(c) for an active code whose userId has no record in the
\* users store yields USER_NOT_FOUND, whatever else the stores hold.
C15_MissingUserIsUserNotFound ==
  \A p \in Procs :
    ( /\ Finished(p, "verify")
      /\ \E c \in codes :
           /\ c.code = loc[p].codeString /\ c.isActive
           /\ \A u \in users : u.id # c.userId )
    => /\ loc[p].result.kind = "return"
       /\ ~loc[p].result.ok
       /\ loc[p].result.message = "USER_NOT_FOUND"

\* the code of a user that is not in the store has been presented while
\* another user is
C15_Witness ==
  \E p \in Procs :
    /\ Finished(p, "verify")
    /\ loc[p].result.message = "USER_NOT_FOUND"
    /\ users # {}

\* a step of a call of generateCodesForUser by p
GenerateStep(p) ==
  /\ loc[p].op = "generate"
  /\ pc[p] \notin {"idle", "done"}
  /\ <<pc[p], loc[p]>> # <<pc'[p], loc'[p]>>

\* C16: generateCodesForUser never removes a record from the codes store
\* (it only sets isActive to false), and once deleteUser(u) has completed no
\* record of the codes store, active or inactive, has userId u.
C16_CodeLifecycle ==
  /\ [][\A p \in Procs : GenerateStep(p) =>
          \A c \in codes : \E c2 \in codes' : c2.id = c.id /\ c2.code = c.code]_vars
  /\ [](\A p \in Procs :
          Returned(p, "deleteUser") =>
            \A c \in codes : c.userId # loc[p].userId)

\* C17: generateCodesForUser(u), whether it returns or fails, leaves the
\* users store and the subscriptions store as they are: no step of the call
\* writes to them.
C17_GenerateLeavesUsersAndSubscriptions ==
  [][\A p \in Procs :
       (GenerateStep(p) \/ (pc[p] = "idle" /\ loc'[p].op = "generate")) =>
         UNCHANGED <<users, usersNextId, subscriptions, subsNextId>>]_vars

\* a call that wrote a code record has failed, the stores holding a user and
\* a subscription
C17_Witness ==
  \E p \in Procs :
    /\ Finished(p, "generate")
    /\ loc[p].result.kind = "throw"
    /\ loc[p].adminCodeId # 0
    /\ \E u \in users : u.id = loc[p].userId
    /\ \E r \in subscriptions : r.userId = loc[p].userId

\* C18: a store error raised by any store request of generateCodesForUser,
\* the first read of the user's active codes included, is propagated to the
\* caller: the call fails with that error and does not go on.
C18_StoreErrorsPropagate ==
  [][\A p \in Procs :
       GenStoreReject(p) =>
         /\ pc'[p] = "done"
         /\ loc'[p].result.kind = "throw"
         /\ loc'[p].result.error = "StoreError"]_vars

InWindow(p) ==
  /\ loc[p].op = "generate"
  /\ pc[p] \in {"g_admin", "g_viewer", "g_add_admin"}

\* C20: the regeneration is not atomic. While generateCodesForUser(u) is
\* between its last deactivation and its first add, with no other writer,
\* u has no active code, and a verifyCode of any code of u whose lookup is
\* answered in that state yields INVALID; such a state is reached for a
\* user who had an active pair.
C20_PartialRegenerationObservable ==
  [][\A p \in SeqProcs :
       InWindow(p) =>
         /\ ActiveCodes(loc[p].userId, "admin") = {}
         /\ ActiveCodes(loc[p].userId, "viewer") = {}
         /\ \A q \in ReadProcs :
              ( /\ pc[q] = "v_getCode" /\ pc'[q] # "v_getCode"
                /\ \E c \in codes : c.code = loc[q].codeString
                                     /\ c.userId = loc[p].userId )
              => /\ pc'[q] = "done"
                 /\ loc'[q].result.message = "INVALID"]_vars

\* while a regeneration for u is between deactivation and add, a concurrent
\* verifyCode of the admin code that was active when it began has returned
\* INVALID, and u has no active code
C20_Witness ==
  \E p \in SeqProcs, q \in ReadProcs :
    /\ InWindow(p)
    /\ Finished(q, "verify")
    /\ loc[q].result.message = "INVALID"
    /\ \E old \in loc[p].pre : old.type = "admin" /\ old.code = loc[q].codeString
    /\ \E u \in users : u.id = loc[p].userId
    /\ ActiveCodes(loc[p].userId, "admin") = {}
    /\ ActiveCodes(loc[p].userId, "viewer") = {}

\* the call of p has written: it deactivated a record or added one
HasWritten(p) == loc[p].i > 1 \/ loc[p].adminCodeId # 0

\* C21: when generateCodesForUser(u) fails after writing, nothing is rolled
\* back (the failing step leaves the codes store as the writes left it),
\* and when the caller's next generateCodesForUser(u) returns, u has exactly
\* one active admin record and exactly one active viewer record.
C21_NoRollbackThenRecover ==
  [][/\ \A p \in Procs :
          (pc[p] # "done" /\ pc'[p] = "done" /\ loc'[p].op = "generate"
             /\ loc'[p].result.kind = "throw") => codes' = codes
     /\ \A p \in SeqProcs, q \in ReadProcs :
          ( /\ Finished(p, "generate") /\ loc[p].result.kind = "throw"
            /\ HasWritten(p)
            /\ pc[q] # "done" /\ pc'[q] = "done"
            /\ loc'[q].result.kind = "return" )
          => \A type \in {"admin", "viewer"} :
               Cardinality({c \in codes' : c.userId = loc[p].userId
                                           /\ c.type = type /\ c.isActive}) = 1]_vars

\* a step of a call of verifyCode by p, the call itself included
VerifyStep(p) ==
  \/ pc[p] = "idle" /\ loc'[p].op = "verify"
  \/ /\ loc[p].op = "verify"
     /\ pc[p] \notin {"idle", "done"}
     /\ <<pc[p], loc[p]>> # <<pc'[p], loc'[p]>>

\* C22: verifyCode is read-only: for every input and every outcome (INVALID,
\* USER_NOT_FOUND, EXPIRED, Success, ERROR) no step of the call changes the
\* users store or the codes store.
C22_VerifyIsReadOnly ==
  [][\A p \in Procs :
       VerifyStep(p) => UNCHANGED <<users, usersNextId, codes, codesNextId>>]_vars

\* a verification of an active code has ended with the generic error, the
\* stores holding users and codes
C22_Witness ==
  \E p \in Procs :
    /\ Finished(p, "verify")
    /\ loc[p].result.message = "ERROR"
    /\ \E c \in codes : c.code = loc[p].codeString /\ c.isActive
    /\ users # {}

\* C23: generateCodesForUser(u) changes only code records whose userId is
\* u: over every step of the call each record of another user stays in the
\* store with the same code string, type and isActive.
C23_OtherUsersCodesUntouched ==
  [][\A p \in Procs :
       GenerateStep(p) =>
         \A c \in codes : c.userId # loc[p].userId => c \in codes']_vars

\* a regeneration that deactivated a pair has returned while another user
\* has active codes
C23_Witness ==
  \E p \in Procs :
    /\ Returned(p, "generate")
    /\ loc[p].i > 1
    /\ \E c \in codes : c.userId # loc[p].userId /\ c.isActive

\* C24: verifyCode(c) returns Success whenever c is the code string of an
\* active record whose user exists and has no expiryDate or one that is not
\* strictly before the instant of the check (one equal to it included),
\* whatever the product of the user is.
C24_ValidCodeSucceeds ==
  \A p \in Procs :
    ( /\ Finished(p, "verify")
      /\ \E c \in codes, u \in users :
           /\ c.code = loc[p].codeString /\ c.isActive
           /\ u.id = c.userId
           /\ (u.expiryDate = None \/ u.expiryDate[1] >= loc[p].vnow) )
    => /\ loc[p].result.kind = "return"
       /\ loc[p].result.ok
====
